---------------------------- MODULE Spec2Model ----------------------------
(***************************************************************************)
(* Model of the streaming batch generator of modality.train_CNN.py         *)
(* (file_generator) and of its preprocessing pipeline (get_img_data,       *)
(* grab_sagittal, resample_slice, normalize, reshape_dimension).           *)
(*                                                                         *)
(* The source is Python 2 (`except Exception, e`): `/` on two ints is      *)
(* floor division, so x_total / 2 and nb_slices / 2 are already integers   *)
(* when np.around / np.round see them.  numpy indexing accepts an index i  *)
(* of an axis of extent N iff -N <= i < N (negative indices wrap) and      *)
(* raises IndexError otherwise.  np.around rounds halves to even.          *)
(***************************************************************************)
EXTENDS Integers, Sequences, FiniteSets

(***************************************************************************)
(* Bounds of the model and constants of the program.                       *)
(***************************************************************************)
\* nb_step, the batch size in slices (100 in the script, a parameter).
NbStep == 5
\* nb_mods, the width of a label row (5 in the script, a parameter).
NbMods == 2
\* number of records of a manifest.
MaxFiles == 2
\* largest sagittal extent given to the extractor on its own.
MaxExtent == 40
\* largest slice count requested of the extractor on its own.
MaxRequest == 40
\* largest slice side given to the resampler on its own.
MaxDim == 40
\* nb_slices = 30, the nominal number of slices per volume.
NominalSlices == 30
\* the side of the resampled grid: np.linspace(0,31,32)/32.
GridSize == 32

VARIABLES
    files,    \* the manifest: a sequence of records (read-only)
    pc,       \* "start" (generator created), "fill" (inside while n < nb_step), "yielded" (suspended at yield)
    seterr,   \* numpy's error mode, np.seterr(all='raise') at import and in file_generator
    n,        \* the fill position
    X,        \* the data buffer: position -> <<record index, index in its sub-batch>>
    Y,        \* the label buffer: position -> row of width nb_mods
    wX,       \* history: positions of X that hold a slice written by an accepted draw of this fill cycle
    wY,       \* history: the same for Y
    last,     \* history: what the last loop iteration did
    turn,     \* which of the two generator objects of train_CNN the variables above belong to
    other,    \* the frame of the other generator object, suspended
    nbSlices, \* the local nb_slices of file_generator, as the last loop iteration left it
    emitted,  \* history: the contents of X and Y when they were last handed to the caller
    partial,  \* history: a draw of this fill cycle raised between the write to X and the write to Y
    arg,      \* input of a function of the pipeline applied on its own
    res       \* its result

vars == <<files, pc, seterr, n, X, Y, wX, wY, last, turn, other, nbSlices, emitted, partial, arg, res>>

Positions == 0 .. (NbStep - 1)
Classes == 0 .. (NbMods - 1)

\* np.zeros: an unwritten slice, an unwritten label row.
ZeroSlice == <<-1, -1>>
ZeroRow == [c \in Classes |-> 0]

NoArg == [fn |-> "none"]

(***************************************************************************)
(* The records a manifest is made of.  A record is a line "<mod> <path>"   *)
(* together with what the file at <path> holds: whether nibabel can load   *)
(* it, the volume's sagittal extent x_total (img.shape[0] after the axis   *)
(* swap), the shape (ny, nz) of its sagittal slices, and its intensities   *)
(* ("varied", "constant": every slice has one value, "nan": holds a NaN).  *)
(***************************************************************************)
Rec(m, r, x, y, z, c) ==
    [mod |-> m, readable |-> r, x_total |-> x, ny |-> y, nz |-> z, content |-> c]

RecordSet ==
    { Rec(0, TRUE, 2, 32, 32, "varied"),              \* two slices
      Rec(NbMods - 1, TRUE, 5, 40, 17, "varied"),     \* odd extent below 30
      Rec(0, TRUE, 31, 32, 32, "varied"),             \* extent above 30
      Rec(NbMods, TRUE, 4, 32, 32, "varied"),         \* label out of range
      Rec(0, FALSE, 0, 0, 0, "varied"),               \* unreadable file
      Rec(NbMods - 1, TRUE, 4, 32, 32, "nan"),        \* NaN intensities
      Rec(0, TRUE, 4, 32, 32, "constant"),            \* constant slices
      Rec(0, TRUE, 1, 32, 32, "varied"),              \* a single slice
      Rec(0, TRUE, 4, 16, 32, "varied"),              \* slices of 16 rows
      Rec(-1, TRUE, 2, 32, 32, "varied"),             \* negative label
      Rec(-(NbMods + 1), TRUE, 2, 32, 32, "varied") } \* label below -nb_mods

Manifests == UNION { [1 .. l -> RecordSet] : l \in 0 .. MaxFiles }

(***************************************************************************)
(* resample_slice                                                          *)
(***************************************************************************)
\* np.around(num / den) for num >= 0, den > 0: round half to even.
Around(num, den) ==
    LET q == num \div den
        r == num % den
    IN  IF 2 * r < den THEN q
        ELSE IF 2 * r > den THEN q + 1
        ELSE IF q % 2 = 0 THEN q ELSE q + 1

\* numpy accepts index i on an axis of extent N iff -N <= i < N.
IndexOK(i, N) == (-N <= i) /\ (i < N)

\* the i-th entry of np.around(s*N).astype(int), s = np.linspace(0,31,32)/32
SampleIndex(i, N) == Around(i * N, GridSize)

\* sy = np.around(s*Ny).astype(int)
SampleIndices(N) == [i \in 0 .. (GridSize - 1) |-> SampleIndex(i, N)]

\* tmp=dSlice[sy,:]; return tmp[:,sz]
resample_slice(ny, nz) ==
    IF \E i \in 0 .. (GridSize - 1) : ~IndexOK(SampleIndex(i, ny), ny)
    THEN [raised |-> TRUE, err |-> "IndexError"]
    ELSE IF \E i \in 0 .. (GridSize - 1) : ~IndexOK(SampleIndex(i, nz), nz)
    THEN [raised |-> TRUE, err |-> "IndexError"]
    ELSE [raised |-> FALSE, rows |-> SampleIndices(ny), cols |-> SampleIndices(nz)]

(***************************************************************************)
(* normalize                                                               *)
(***************************************************************************)
\* normalize under numpy's default error mode: 0/0 gives NaN with a warning only
normalize_quiet(content, mode) ==
    IF content \in {"constant", "nan"} THEN [raised |-> FALSE, finite |-> FALSE]
    ELSE [raised |-> FALSE, finite |-> TRUE]

\* (slice_array - m) / st: st = 0 for a constant slice, and 0/0 raises
\* FloatingPointError under np.seterr(all='raise'); a NaN propagates quietly.
normalize(content, mode) ==
    IF content = "constant"
    THEN IF mode = "raise" THEN [raised |-> TRUE, err |-> "FloatingPointError"]
         ELSE [raised |-> FALSE, finite |-> FALSE]
    ELSE IF content = "nan" THEN [raised |-> FALSE, finite |-> FALSE]
    ELSE [raised |-> FALSE, finite |-> TRUE]

(***************************************************************************)
(* grab_sagittal, reshape_dimension, get_img_data                          *)
(***************************************************************************)
\* x_mid = np.around(x_total / 2).astype(int)
x_mid(x_total) == x_total \div 2
\* a half-window that rounds the half up instead of down
windowHalfUp(nb_slices) == (nb_slices + 1) \div 2

\* window = np.round(nb_slices / 2).astype(int)
window(nb_slices) == nb_slices \div 2

\* range(x_mid-window, x_mid+window), as a sequence
SagittalRange(x_total, nb_slices) ==
    [i \in 1 .. (2 * window(nb_slices)) |-> x_mid(x_total) - window(nb_slices) + (i - 1)]

\* the loop over range(x_mid-window, x_mid+window): img[x_idx,:,:], resample_slice,
\* normalize, append; the first slice that fails ends it
grab_sagittal(rec, nb_slices, mode) ==
    LET lo == x_mid(rec.x_total) - window(nb_slices)
        hi == x_mid(rec.x_total) + window(nb_slices)
    IN  IF lo >= hi THEN [raised |-> FALSE, slices |-> << >>, finite |-> TRUE]
        ELSE IF ~IndexOK(lo, rec.x_total) THEN [raised |-> TRUE, err |-> "IndexError"]
        ELSE IF resample_slice(rec.ny, rec.nz).raised THEN [raised |-> TRUE, err |-> "IndexError"]
        ELSE IF normalize(rec.content, mode).raised THEN normalize(rec.content, mode)
        ELSE IF \E x_idx \in lo .. (hi - 1) : ~IndexOK(x_idx, rec.x_total)
             THEN [raised |-> TRUE, err |-> "IndexError"]
        ELSE [raised |-> FALSE,
              slices |-> SagittalRange(rec.x_total, nb_slices),
              finite |-> normalize(rec.content, mode).finite]

\* (x,y,z) = img.shape fails unless img is 3-D: np.asarray([]) has shape (0,)
reshape_dimension(img) ==
    IF img.slices = << >> THEN [raised |-> TRUE, err |-> "ValueError"]
    ELSE img

\* img = grab_sagittal(img,nb_slices); img = reshape_dimension(img); return img
\* (img is bound as the element of a singleton so that it is computed once)
get_img_data(rec, nb_slices, mode) ==
    CHOOSE out \in { IF img.raised THEN img ELSE reshape_dimension(img) :
                        img \in {grab_sagittal(rec, nb_slices, mode)} } : TRUE


(***************************************************************************)
(* np_utils.to_categorical([mod]*rows, nb_mods) as file_generator calls    *)
(* it: categorical = np.zeros((rows, nb)); categorical[np.arange(rows),    *)
(* y] = 1.  The column index follows numpy's indexing rule.                *)
(***************************************************************************)
OneHot(col) == [c \in Classes |-> IF c = col THEN 1 ELSE 0]

\* an encoder that compares instead of indexing: no wrap-around, no IndexError
to_categorical_compare(mod, rows, nb) ==
    [raised |-> FALSE, rows |-> [i \in 1 .. rows |-> OneHot(mod)]]

to_categorical(mod, rows, nb) ==
    IF IndexOK(mod, nb)
    THEN [raised |-> FALSE,
          rows |-> [i \in 1 .. rows |-> OneHot(IF mod >= 0 THEN mod ELSE nb + mod)]]
    ELSE [raised |-> TRUE, err |-> "IndexError"]

(***************************************************************************)
(* file_generator                                                          *)
(***************************************************************************)
\* idx = np.random.randint(0, len(files))
Indices == 0 .. (Len(files) - 1)
\* files[idx]
FileAt(idx) == files[idx + 1]

\* a filter that lets the label nb_mods itself through
ModAcceptedInclusive(mod) == mod <= NbMods

\* if mod < nb_mods:
ModAccepted(mod) == mod < NbMods

\* the clamp left out
EffectiveCountUnclamped(nb_slices, x_total) == nb_slices

\* if nb_slices>img.shape[0]: nb_slices=img.shape[0]
EffectiveCount(nb_slices, x_total) ==
    IF nb_slices > x_total THEN x_total ELSE nb_slices

\* nb_slices left as the iteration before had it
SlicesKept(cur) == cur

\* nb_slices = 30, first statement of every iteration of while n < nb_step
SlicesAtDraw(cur) == NominalSlices

\* nb_slices after the reset and the clamp, for the record drawn
Clamped(rec) == EffectiveCount(SlicesAtDraw(nbSlices), rec.x_total)

\* nb_slices = 30, the clamp, then data = get_img_data(img,nb_slices), for the record drawn
DataOf(rec) == get_img_data(rec, Clamped(rec), seterr)

\* the number of slices the write takes: need_slices if need_slices < nb_slices, else nb_slices
Taken(k, need) == IF need < k THEN need ELSE k

\* what one iteration did: its outcome, the index drawn, whether to_categorical
\* was called and with which label, and the message printed
Trace(op, idx, called, label, log) ==
    [op |-> op, idx |-> idx, called |-> called, label |-> label, log |-> log]

\* print(str(e)) for a failed nib.load: the text of the library's exception,
\* which the handler does not complete with f; it may or may not hold the path
LoadErrorTexts == {"str(e)", "str(e) holding f"}

\* the messages that hold the path of the record drawn
NamesRecord(log) == log \in {"Warning: e f", "Loaded NaN values with f", "str(e) holding f"}

\* nothing has been handed to the caller yet
NoBatch == [given |-> FALSE, X |-> [p \in Positions |-> ZeroSlice], Y |-> [p \in Positions |-> ZeroRow]]

NoCall == Trace("none", -1, FALSE, 0, "none")

\* the frame of a generator object that file_generator(manifest, ...) has just
\* created: no statement of the body has run
Created(manifest) ==
    [files |-> manifest, pc |-> "start", n |-> 0,
     X |-> [p \in Positions |-> ZeroSlice], Y |-> [p \in Positions |-> ZeroRow],
     wX |-> {}, wY |-> {}, last |-> NoCall, nbSlices |-> NominalSlices,
     emitted |-> NoBatch, partial |-> FALSE]

\* the slice positions X[at:at+taken] names
Written(at, taken) == { p \in Positions : at <= p /\ p < at + taken }

\* a handler that catches I/O errors only: anything else leaves the generator
InnerExceptNarrow(err) == IF err = "IOError" THEN "fill" ELSE "terminated"

\* except Exception as e: ... continue (around get_img_data): the loop goes on
InnerExcept(err) == "fill"

\* a handler that gives the failure to the caller
OuterExceptReraise(err) == "terminated"

\* except Exception, e: print(str(e)); pass (around the whole iteration): the loop goes on
OuterExcept(err) == "fill"

\* a write that forgets the offset: X[:taken,:,:,:] = data[:taken,:,:,:]
WriteXFromStart(buf, at, idx, taken) ==
    [p \in Positions |->
        IF p \in Written(0, taken) THEN <<idx, p>> ELSE buf[p]]

\* X[n:n+taken,:,:,:] = data[:taken,:,:,:]
WriteX(buf, at, idx, taken) ==
    [p \in Positions |->
        IF p \in Written(at, taken) THEN <<idx, p - at>> ELSE buf[p]]

\* a label write one position late: Y[n+1:n+1+taken,:]
WriteYShifted(buf, at, rows, taken) ==
    [p \in Positions |->
        IF (p - 1) \in Written(at, taken) THEN rows[p - at] ELSE buf[p]]

\* Y[n:n+taken,:] = np_utils.to_categorical([mod]*taken, nb_mods)
WriteY(buf, at, rows, taken) ==
    [p \in Positions |->
        IF p \in Written(at, taken) THEN rows[p - at + 1] ELSE buf[p]]

\* the increment of n left out
AdvanceStuck(at, k) == at

\* n += nb_slices
Advance(at, k) == at + k

\* a loop that stops one position early
LoopCondShort(at) == at < NbStep - 1

\* while n < nb_step:
LoopCond(at) == at < NbStep

\* while n < nb_step: one more iteration is run
Filling == pc = "fill" /\ LoopCond(n)

Init ==
    /\ files \in Manifests
    /\ pc = "start"
    /\ seterr = "raise"
    /\ n = 0
    /\ X = [p \in Positions |-> ZeroSlice]
    /\ Y = [p \in Positions |-> ZeroRow]
    /\ wX = {}
    /\ wY = {}
    /\ last = NoCall
    /\ partial = FALSE
    /\ emitted = NoBatch
    /\ nbSlices = NominalSlices
    /\ turn = "train"
    /\ other = Created(<< >>)
    /\ arg = NoArg
    /\ res = NoArg

\* the first next(): np.seterr, the two np.zeros, n = 0
Start ==
    /\ pc = "start"
    /\ seterr' = "raise"
    /\ X' = [p \in Positions |-> ZeroSlice]
    /\ Y' = [p \in Positions |-> ZeroRow]
    /\ n' = 0
    /\ pc' = "fill"
    /\ wX' = {}
    /\ wY' = {}
    /\ last' = NoCall
    /\ partial' = FALSE
    /\ UNCHANGED <<files, arg, res, emitted, nbSlices, turn, other>>

\* an empty manifest: np.random.randint(0, 0) raises ValueError: except Exception, e: print(str(e))
DrawNoFile ==
    /\ Filling
    /\ Indices = {}
    /\ last' = Trace("draw_failed", -1, FALSE, 0, "str(e)")
    /\ pc' = OuterExcept("ValueError")
    /\ nbSlices' = SlicesAtDraw(nbSlices)
    /\ UNCHANGED <<files, seterr, n, X, Y, wX, wY, arg, res, partial, emitted, turn, other>>

\* mod >= nb_mods: the body of the if is not run
DrawSkipped(idx) ==
    /\ Filling
    /\ ~ModAccepted(FileAt(idx).mod)
    /\ last' = Trace("skipped", idx, FALSE, 0, "none")
    /\ nbSlices' = SlicesAtDraw(nbSlices)
    /\ UNCHANGED <<files, pc, seterr, n, X, Y, wX, wY, arg, res, partial, emitted, turn, other>>

\* nib.load(f) raises: except Exception, e: print(str(e))
DrawLoadFailed(idx) ==
    /\ Filling
    /\ ModAccepted(FileAt(idx).mod)
    /\ ~FileAt(idx).readable
    /\ \E msg \in LoadErrorTexts : last' = Trace("load_failed", idx, FALSE, 0, msg)
    /\ pc' = OuterExcept("IOError")
    /\ nbSlices' = SlicesAtDraw(nbSlices)
    /\ UNCHANGED <<files, seterr, n, X, Y, wX, wY, arg, res, partial, emitted, turn, other>>

\* get_img_data raises: print("Warning: {} {}".format(e, f)); continue
DrawExtractFailed(idx) ==
    /\ Filling
    /\ ModAccepted(FileAt(idx).mod)
    /\ FileAt(idx).readable
    /\ \E data \in {DataOf(FileAt(idx))} :
        /\ data.raised
        /\ last' = Trace("extract_failed", idx, FALSE, 0, "Warning: e f")
        /\ pc' = InnerExcept(data.err)
        /\ nbSlices' = Clamped(FileAt(idx))
    /\ UNCHANGED <<files, seterr, n, X, Y, wX, wY, arg, res, partial, emitted, turn, other>>

\* not np.all(np.isfinite(data)): print("Loaded NaN values with {}".format(f)); continue
DrawNonFinite(idx) ==
    /\ Filling
    /\ ModAccepted(FileAt(idx).mod)
    /\ FileAt(idx).readable
    /\ \E data \in {DataOf(FileAt(idx))} :
        /\ ~data.raised
        /\ ~data.finite
        /\ last' = Trace("non_finite", idx, FALSE, 0, "Loaded NaN values with f")
        /\ nbSlices' = Clamped(FileAt(idx))
    /\ UNCHANGED <<files, pc, seterr, n, X, Y, wX, wY, arg, res, partial, emitted, turn, other>>

\* X is written, then to_categorical raises: except Exception, e: print(str(e))
DrawEncodeFailed(idx) ==
    /\ Filling
    /\ ModAccepted(FileAt(idx).mod)
    /\ FileAt(idx).readable
    /\ \E data \in {DataOf(FileAt(idx))} :
        /\ ~data.raised
        /\ data.finite
        /\ \E taken \in {Taken(Len(data.slices), NbStep - n)} :
           \E cat \in {to_categorical(FileAt(idx).mod, taken, NbMods)} :
            /\ cat.raised
            /\ X' = WriteX(X, n, idx, taken)
            /\ wX' = wX \ Written(n, taken)
            /\ last' = Trace("encode_failed", idx, TRUE, FileAt(idx).mod, "str(e)")
            /\ pc' = OuterExcept(cat.err)
            /\ partial' = TRUE
            /\ nbSlices' = Len(data.slices)
    /\ UNCHANGED <<files, seterr, n, Y, wY, arg, res, emitted, turn, other>>

\* X and Y are written and n advances
DrawAccepted(idx) ==
    /\ Filling
    /\ ModAccepted(FileAt(idx).mod)
    /\ FileAt(idx).readable
    /\ \E data \in {DataOf(FileAt(idx))} :
        /\ ~data.raised
        /\ data.finite
        /\ \E taken \in {Taken(Len(data.slices), NbStep - n)} :
           \E cat \in {to_categorical(FileAt(idx).mod, taken, NbMods)} :
            /\ ~cat.raised
            /\ X' = WriteX(X, n, idx, taken)
            /\ Y' = WriteY(Y, n, cat.rows, taken)
            /\ n' = Advance(n, Len(data.slices))
            /\ wX' = wX \cup Written(n, taken)
            /\ wY' = wY \cup Written(n, taken)
            /\ last' = Trace("accepted", idx, TRUE, FileAt(idx).mod, "none")
            /\ nbSlices' = Len(data.slices)
    /\ UNCHANGED <<files, pc, seterr, arg, res, partial, emitted, turn, other>>

\* one iteration of while n < nb_step, on the record drawn
Draw(idx) ==
    \/ DrawSkipped(idx)
    \/ DrawLoadFailed(idx)
    \/ DrawExtractFailed(idx)
    \/ DrawNonFinite(idx)
    \/ DrawEncodeFailed(idx)
    \/ DrawAccepted(idx)

\* n < nb_step is false: yield X,Y
Yield ==
    /\ pc = "fill"
    /\ ~LoopCond(n)
    /\ pc' = "yielded"
    /\ last' = NoCall
    /\ emitted' = [given |-> TRUE, X |-> X, Y |-> Y]
    /\ UNCHANGED <<files, seterr, n, X, Y, wX, wY, arg, res, partial, nbSlices, turn, other>>

\* the caller's next next(): back to the head of while True, n = 0
Resume ==
    /\ pc = "yielded"
    /\ n' = 0
    /\ pc' = "fill"
    /\ wX' = {}
    /\ wY' = {}
    /\ last' = NoCall
    /\ partial' = FALSE
    /\ UNCHANGED <<files, seterr, X, Y, arg, res, emitted, nbSlices, turn, other>>

Next ==
    \/ Start
    \/ DrawNoFile
    \/ \E idx \in Indices : DrawSkipped(idx)
    \/ \E idx \in Indices : DrawLoadFailed(idx)
    \/ \E idx \in Indices : DrawExtractFailed(idx)
    \/ \E idx \in Indices : DrawNonFinite(idx)
    \/ \E idx \in Indices : DrawEncodeFailed(idx)
    \/ \E idx \in Indices : DrawAccepted(idx)
    \/ Yield
    \/ Resume

Spec == Init /\ [][Next]_vars

(***************************************************************************)
(* The functions of the pipeline applied on their own: the extraction of   *)
(* file_generator (the clamp of nb_slices, then grab_sagittal) on a        *)
(* loaded volume of any extent, and resample_slice on a slice of any       *)
(* shape.                                                                  *)
(***************************************************************************)
Call(fn, nb, x, y, z) == [fn |-> fn, nb_slices |-> nb, x_total |-> x, ny |-> y, nz |-> z]

PipelineInit ==
    /\ files = << >>
    /\ pc = "start"
    /\ seterr = "raise"
    /\ n = 0
    /\ X = [p \in Positions |-> ZeroSlice]
    /\ Y = [p \in Positions |-> ZeroRow]
    /\ wX = {}
    /\ wY = {}
    /\ last = NoCall
    /\ partial = FALSE
    /\ emitted = NoBatch
    /\ nbSlices = NominalSlices
    /\ turn = "train"
    /\ other = Created(<< >>)
    /\ arg \in { Call("extract", nb, x, GridSize, GridSize) : nb \in 0 .. MaxRequest, x \in 0 .. MaxExtent }
               \cup { Call("resample", 0, 0, y, z) : y \in 1 .. MaxDim, z \in 1 .. MaxDim }
    /\ res = NoArg

\* if nb_slices>img.shape[0]: nb_slices=img.shape[0]; then grab_sagittal(img,nb_slices)
Extract ==
    /\ arg.fn = "extract"
    /\ res = NoArg
    /\ LET nb_slices == EffectiveCount(arg.nb_slices, arg.x_total)
       IN  res' = [fn |-> "extract",
                   nb_slices |-> nb_slices,
                   range |-> SagittalRange(arg.x_total, nb_slices),
                   out |-> grab_sagittal(Rec(0, TRUE, arg.x_total, arg.ny, arg.nz, "varied"),
                                         nb_slices, seterr)]
    /\ UNCHANGED <<files, pc, seterr, n, X, Y, wX, wY, last, arg, partial, emitted, nbSlices, turn, other>>

\* resample_slice(dSlice) with dSlice.shape = (ny, nz)
Resample ==
    /\ arg.fn = "resample"
    /\ res = NoArg
    /\ res' = [fn |-> "resample",
               sy |-> SampleIndices(arg.ny),
               sz |-> SampleIndices(arg.nz),
               out |-> resample_slice(arg.ny, arg.nz)]
    /\ UNCHANGED <<files, pc, seterr, n, X, Y, wX, wY, last, arg, partial, emitted, nbSlices, turn, other>>

PipelineNext == Extract \/ Resample

PipelineSpec == PipelineInit /\ [][PipelineNext]_vars

TypeOK ==
    /\ pc \in {"start", "fill", "yielded", "terminated"}
    /\ n \in 0 .. (NbStep + NominalSlices)
    /\ wX \subseteq Positions
    /\ wY \subseteq Positions
    /\ partial \in BOOLEAN
    /\ turn \in {"train", "valid"}
    /\ other.pc \in {"start", "fill", "yielded", "terminated"}
    /\ nbSlices \in 0 .. NominalSlices
    /\ emitted.given \in BOOLEAN

(***************************************************************************)
(* Fair sampling: while the loop runs and the manifest holds a record      *)
(* whose draw is accepted, such a draw happens (np.random.randint is       *)
(* uniform over the manifest), and the caller keeps calling next().        *)
(***************************************************************************)
Fairness ==
    /\ WF_vars(Start \/ Yield \/ Resume)
    /\ WF_vars(\E idx \in Indices : DrawAccepted(idx))

FairSpec == Spec /\ Fairness

(***************************************************************************)
(* The two generator objects of train_CNN, file_generator(train_files,...) *)
(* and file_generator(valid_files,...), stepped in any interleaving: the   *)
(* variables hold the frame of the one that runs, other the frame of the   *)
(* one that waits, and Switch passes control between them at any point.    *)
(***************************************************************************)
\* the locals of the generator that runs
Frame ==
    [files |-> files, pc |-> pc, n |-> n, X |-> X, Y |-> Y, wX |-> wX, wY |-> wY,
     last |-> last, nbSlices |-> nbSlices, emitted |-> emitted, partial |-> partial]

\* one pair of arrays for every generator object (a module-level buffer)
BufferShared(frame) == [X |-> X, Y |-> Y]

\* X and Y are created by the np.zeros of the generator's own body
BufferOf(frame) == [X |-> frame.X, Y |-> frame.Y]

TrainManifests ==
    { m \in Manifests : Len(m) <= 1 }
        \cup { << Rec(0, TRUE, 2, 32, 32, "varied"), Rec(NbMods - 1, TRUE, 5, 40, 17, "varied") >> }

ValidManifests ==
    { << Rec(0, TRUE, 31, 32, 32, "varied") >>, << Rec(NbMods - 1, TRUE, 5, 40, 17, "varied") >> }

PairInit ==
    /\ files \in TrainManifests
    /\ pc = "start"
    /\ seterr = "raise"
    /\ n = 0
    /\ X = [p \in Positions |-> ZeroSlice]
    /\ Y = [p \in Positions |-> ZeroRow]
    /\ wX = {}
    /\ wY = {}
    /\ last = NoCall
    /\ partial = FALSE
    /\ emitted = NoBatch
    /\ nbSlices = NominalSlices
    /\ turn = "train"
    /\ other \in { Created(m) : m \in ValidManifests }
    /\ arg = NoArg
    /\ res = NoArg

\* the scheduler suspends the generator that runs and resumes the other one
Switch ==
    /\ turn' = IF turn = "train" THEN "valid" ELSE "train"
    /\ other' = Frame
    /\ files' = other.files
    /\ pc' = other.pc
    /\ n' = other.n
    /\ X' = BufferOf(other).X
    /\ Y' = BufferOf(other).Y
    /\ wX' = other.wX
    /\ wY' = other.wY
    /\ last' = other.last
    /\ nbSlices' = other.nbSlices
    /\ emitted' = other.emitted
    /\ partial' = other.partial
    /\ UNCHANGED <<seterr, arg, res>>

PairNext ==
    \/ Next
    \/ Switch

PairSpec == PairInit /\ [][PairNext]_vars

(***************************************************************************)
(* Properties                                                              *)
(***************************************************************************)
\* the record a slice of X comes from
Source(p) == FileAt(X[p][1])

\* a record with a label in [0, nb_mods), a loadable file and a finite, non-empty sub-batch
Valid(rec) ==
    /\ 0 <= rec.mod /\ rec.mod < NbMods
    /\ rec.readable
    /\ LET data == get_img_data(rec, EffectiveCount(NominalSlices, rec.x_total), "raise")
       IN  IF data.raised THEN FALSE ELSE data.finite

\* a record whose loading, extraction, resampling or normalization fails, or
\* whose sub-batch holds a non-finite value
Failing(rec) ==
    \/ ~rec.readable
    \/ LET data == get_img_data(rec, EffectiveCount(NominalSlices, rec.x_total), "raise")
       IN  IF data.raised THEN TRUE ELSE ~data.finite

\* a record no draw of which advances n
Rejected(rec) ==
    \/ rec.mod >= NbMods
    \/ rec.mod < -NbMods
    \/ Failing(rec)

\* a step that is one iteration of the fill loop on record i
DrawOf(i) == pc = "fill" /\ n < NbStep /\ last'.idx = i

\* C1: a batch is emitted only when every position 0..nb_step-1 of X and of Y
\* has been written, during the current fill cycle, by an accepted draw.
BatchComplete ==
    pc = "yielded" =>
        /\ wX = Positions
        /\ wY = Positions
        /\ \A p \in Positions : X[p] # ZeroSlice

BatchCompleteWitness ==
    /\ pc = "yielded"
    /\ wX = Positions
    /\ \E i \in Indices : ~FileAt(i).readable
    /\ \E p \in Positions : X[p][2] >= 1

\* C2: in every emitted batch every row of Y has exactly one entry equal to 1
\* and all its other entries equal to 0.
RowsOneHot ==
    pc = "yielded" =>
        \A p \in Positions :
            /\ Cardinality({ c \in Classes : Y[p][c] = 1 }) = 1
            /\ \A c \in Classes : Y[p][c] \in {0, 1}

RowsOneHotWitness ==
    /\ pc = "yielded"
    /\ \E p, q \in Positions : Y[p] # Y[q]
    /\ \E i \in Indices : FileAt(i).mod < 0

\* C3: a record whose label is >= nb_mods contributes to no emitted batch, and
\* a draw of it leaves n, X and Y as they were and the generator in its loop.
OutOfRangeNeverContributes ==
    /\ [](pc = "yielded" => \A p \in Positions : Source(p).mod < NbMods)
    /\ [][\A i \in Indices :
            (DrawOf(i) /\ FileAt(i).mod >= NbMods) =>
                (n' = n /\ X' = X /\ Y' = Y /\ pc' = "fill")]_vars

OutOfRangeWitness ==
    /\ last.op = "skipped"
    /\ FileAt(last.idx).mod >= NbMods
    /\ n > 0

\* C4: a record whose loading, extraction, resampling or normalization fails,
\* or whose sub-batch is not finite, is in no emitted batch; a draw of it
\* leaves n, X and Y as they were and the generator in its loop; the
\* generator is never terminated.
BadRecordDiscarded ==
    /\ [](pc # "terminated")
    /\ [](pc = "yielded" => \A p \in Positions : ~Failing(Source(p)))
    /\ [][\A i \in Indices :
            (DrawOf(i) /\ FileAt(i).mod < NbMods /\ Failing(FileAt(i))) =>
                (n' = n /\ X' = X /\ Y' = Y /\ pc' = "fill")]_vars

BadRecordWitness ==
    /\ last.op \in {"extract_failed", "non_finite"}
    /\ Failing(FileAt(last.idx))
    /\ n > 0

\* C5: under fair sampling, a manifest that holds a valid record has every
\* fill cycle reach the yield: batches are emitted again and again, also
\* when other records are unreadable.
FairFillEmits == []<>((\E i \in Indices : Valid(FileAt(i))) => pc = "yielded")

FairFillWitness ==
    /\ pc = "yielded"
    /\ Len(files) = 2
    /\ ~files[1].readable
    /\ Valid(files[2])

\* C6: when every record of the manifest is rejected, n stays 0, no batch is
\* emitted, the generator is never terminated and another draw is always
\* possible: there is no retry ceiling.
NoRetryCeiling ==
    (\A i \in Indices : Rejected(FileAt(i))) =>
        /\ n = 0
        /\ pc \in {"start", "fill"}
        /\ pc = "fill" => ENABLED (DrawNoFile \/ \E i \in Indices : Draw(i))

NoRetryCeilingWitness ==
    /\ \A i \in Indices : ~FileAt(i).readable
    /\ pc = "fill"
    /\ last.op = "load_failed"

\* C7: for a volume of extent X >= 1 and the nominal request of 30, the
\* extractor, given the effective count e = min(30,X), returns exactly e slices.
ExtractReturnsEffective ==
    (res.fn = "extract" /\ arg.nb_slices = NominalSlices /\ arg.x_total >= 1) =>
        /\ res.nb_slices = (IF arg.x_total < NominalSlices THEN arg.x_total ELSE NominalSlices)
        /\ ~res.out.raised
        /\ Len(res.out.slices) = res.nb_slices

\* C8: the number of slices the extractor returns, the length of the range
\* [mid-half, mid+half), is at most the volume's extent and at most the count
\* requested.
ExtractAtMost ==
    res.fn = "extract" =>
        /\ Len(res.range) <= arg.x_total
        /\ Len(res.range) <= arg.nb_slices
        /\ ~res.out.raised
        /\ Len(res.out.slices) = Len(res.range)

ExtractAtMostWitness ==
    /\ res.fn = "extract"
    /\ arg.x_total < arg.nb_slices
    /\ Len(res.out.slices) > 0
    /\ Len(res.out.slices) < arg.x_total

\* C9: for a slice of shape (Ny, Nz), Ny, Nz >= 1, each of the 32 indices
\* round(i*N/32) lies in [0, N-1], for N = Ny and N = Nz, and resample_slice
\* returns a 32x32 grid.
ResampleInRange ==
    res.fn = "resample" =>
        /\ \A i \in 0 .. (GridSize - 1) :
            /\ 0 <= res.sy[i] /\ res.sy[i] <= arg.ny - 1
            /\ 0 <= res.sz[i] /\ res.sz[i] <= arg.nz - 1
        /\ ~res.out.raised

\* C10: to_categorical is never called with a label outside [0, nb_mods).
EncoderLabelInRange ==
    last.called => (0 <= last.label /\ last.label < NbMods)

\* the row to_categorical gives for a label it accepts
EncodedRow(mod) == to_categorical(mod, 1, NbMods).rows[1]

\* C11: in every emitted batch, at every position, the row of Y is the
\* encoding of the label of the record whose slice X holds there, also after
\* draws that raised between the two writes and after truncated draws.
LabelsAligned ==
    pc = "yielded" =>
        \A p \in Positions :
            /\ X[p] # ZeroSlice
            /\ IndexOK(Source(p).mod, NbMods)
            /\ Y[p] = EncodedRow(Source(p).mod)

LabelsAlignedWitness ==
    /\ pc = "yielded"
    /\ partial
    /\ n > NbStep
    /\ \A p \in Positions : Y[p] = EncodedRow(Source(p).mod)

\* C12: the fill position advances by the number of slices written, so it
\* stays within 0 .. nb_step, is below nb_step while the loop draws, and is
\* exactly nb_step when the batch is emitted.
FillPositionBounded ==
    /\ n \in 0 .. NbStep
    /\ pc = "yielded" => n = NbStep

\* C13: each fill cycle works on a buffer of its own, so the batch handed to
\* the caller at a yield is never written again: the arrays the caller holds
\* (yield X,Y hands over X and Y themselves) keep the contents they had at the
\* yield through every later step of the generator.
EmittedBatchStable ==
    emitted.given => (X = emitted.X /\ Y = emitted.Y)

\* the number of slices the extraction gives for a record drawn on its own
SubBatchSize(rec) ==
    Len(get_img_data(rec, EffectiveCount(NominalSlices, rec.x_total), seterr).slices)

\* C14: an accepted draw of k slices at fill position n, with remaining =
\* nb_step - n, writes exactly the first min(k, remaining) slices, in order,
\* to positions n .. n+min-1 of X, with the record's label row beside each in
\* Y; the other slices are dropped and every other position, all those below
\* n included, keeps its contents.
TruncatedWrite ==
    [][\A i \in Indices :
        (DrawOf(i) /\ last'.op = "accepted") =>
            LET k == SubBatchSize(FileAt(i))
                remaining == NbStep - n
                m == IF k < remaining THEN k ELSE remaining
            IN \A p \in Positions :
                 IF p >= n /\ p < n + m
                 THEN /\ X'[p] = <<i, p - n>>
                      /\ Y'[p] = EncodedRow(FileAt(i).mod)
                 ELSE /\ X'[p] = X[p]
                      /\ Y'[p] = Y[p]]_vars

TruncatedWriteWitness ==
    /\ pc = "fill"
    /\ last.op = "accepted"
    /\ n > NbStep
    /\ \E p \in Positions :
        /\ p > 0
        /\ X[p] = <<last.idx, 0>>
        /\ X[p - 1][2] > 0
        /\ X[NbStep - 1] = <<last.idx, NbStep - 1 - p>>

\* x_idx is outside the volume: below 0, or at or past its extent
OutsideVolume(x_idx, x_total) == x_idx < 0 \/ x_idx >= x_total

\* C15: there is a volume extent and an effective slice count, the smaller of
\* the requested count and the extent, for which the extraction window
\* range(x_mid - window, x_mid + window) holds an index outside the volume.
WindowLeavesVolume ==
    res.fn = "extract" =>
        \E x_total \in 0 .. MaxExtent, requested \in 0 .. MaxRequest :
            LET range == SagittalRange(x_total, EffectiveCount(requested, x_total))
            IN  \E i \in DOMAIN range : OutsideVolume(range[i], x_total)

\* C15, as the code has it: whatever the extent and the requested count, every
\* index of the extraction window lies inside the volume.
WindowInsideVolume ==
    res.fn = "extract" =>
        \A i \in DOMAIN res.range : ~OutsideVolume(res.range[i], arg.x_total)

WindowInsideVolumeWitness ==
    /\ res.fn = "extract"
    /\ arg.nb_slices > arg.x_total
    /\ Len(res.range) >= 2
    /\ res.range[1] = 0
    /\ res.range[Len(res.range)] = arg.x_total - 1

\* C16: every draw discarded for a failure of the load, the extraction, the
\* resampling or the normalization, or for a non-finite value, leaves a log
\* entry that names the record's path.
DiscardNamesRecord ==
    last.op \in {"load_failed", "extract_failed", "non_finite"} => NamesRecord(last.log)

\* a record whose draw reaches normalize with constant-valued slices
ConstantVolume(rec) ==
    /\ rec.content = "constant"
    /\ rec.readable
    /\ ModAccepted(rec.mod)
    /\ EffectiveCount(NominalSlices, rec.x_total) >= 2
    /\ ~resample_slice(rec.ny, rec.nz).raised

WindowReset ==
    [][\A i \in Indices :
        (DrawOf(i) /\ last'.op \in {"extract_failed", "non_finite", "encode_failed", "accepted"}) =>
            LET e == IF NominalSlices > FileAt(i).x_total THEN FileAt(i).x_total ELSE NominalSlices
            IN  IF last'.op \in {"extract_failed", "non_finite"}
                THEN nbSlices' = e
                ELSE /\ nbSlices' = Len(get_img_data(FileAt(i), e, seterr).slices)
                     /\ last'.op = "accepted" => n' = n + nbSlices']_vars

WindowResetWitness ==
    /\ last.op = "accepted"
    /\ emitted.given
    /\ nbSlices = NominalSlices
    /\ n >= NominalSlices + 2
    /\ X[0][1] # last.idx
    /\ FileAt(X[0][1]).x_total < NominalSlices

\* C20: every draw that gets as far as the write to the buffer makes
\* progress: a draw whose extraction gave no slice is never accepted, and a
\* draw that has written to X has advanced n by at least 1.
DrawsProgress ==
    [][\A i \in Indices :
        DrawOf(i) =>
            /\ last'.op = "accepted" => SubBatchSize(FileAt(i)) >= 1
            /\ X' # X => n' >= n + 1]_vars

\* every position of the buffer holds a slice of a record of the manifest of
\* the generator that runs, in the order of its extraction, beside its label
OwnRecords ==
    \A p \in Positions :
        /\ X[p][1] \in Indices
        /\ X[p][2] >= 0 /\ X[p][2] < SubBatchSize(FileAt(X[p][1]))
        /\ X[p][2] > 0 => (p > 0 /\ X[p - 1] = <<X[p][1], X[p][2] - 1>>)
        /\ Y[p] = EncodedRow(FileAt(X[p][1]).mod)

\* C18: the training and the validation generator, stepped in any
\* interleaving, share no buffer and no fill position: a step of the one that
\* runs leaves n, X and Y of the one that waits unchanged, a generator that is
\* resumed finds its n, X and Y as it left them, and every batch a generator
\* emits holds records of its own manifest only.
InstancesIsolated ==
    [][/\ turn' = turn =>
            (other'.n = other.n /\ other'.X = other.X /\ other'.Y = other.Y)
       /\ turn' # turn =>
            (n' = other.n /\ X' = other.X /\ Y' = other.Y
                /\ other'.n = n /\ other'.X = X /\ other'.Y = Y)
       /\ pc' = "yielded" => OwnRecords']_vars

InstancesIsolatedWitness ==
    /\ turn = "train"
    /\ pc = "yielded"
    /\ emitted.given
    /\ other.pc = "fill"
    /\ other.n > 0
    /\ other.emitted.given
    /\ other.X # X

=============================================================================
